---- MODULE Spec2Model ----
(***************************************************************************)
(* A model of the site-to-scaffold pipeline: the bounded breadth-first     *)
(* crawl of crawler.py and the policy check, output sanitizer and scaffold *)
(* assembler of gen_alpha.py.                                              *)
(*                                                                         *)
(* Text is modelled in two ways.  Host names and page titles, on which the *)
(* code does substring tests, are sequences of one-character strings.      *)
(* Model output and file contents are sequences of atoms: an atom is       *)
(* either one of the characters the code looks at ({, }, ", `, newline,    *)
(* blank, :, ,) or a chunk, a run of other characters that the code only   *)
(* ever measures (its length is the length of the string).                 *)
(***************************************************************************)
EXTENDS Integers, Sequences, FiniteSets, TLC

(***************************************************************************)
(* Bounds of the model.                                                    *)
(***************************************************************************)
MaxPagesBound == 5
MaxDepthBound == 3

(***************************************************************************)
(* Character-level strings: str.lower() and the `in` substring test.       *)
(***************************************************************************)
UpperAlpha == <<"A","B","C","D","E","F","G","H","I","J","K","L","M",
                "N","O","P","Q","R","S","T","U","V","W","X","Y","Z">>
LowerAlpha == <<"a","b","c","d","e","f","g","h","i","j","k","l","m",
                "n","o","p","q","r","s","t","u","v","w","x","y","z">>

LowerChar(c) ==
    IF \E i \in 1..26 : UpperAlpha[i] = c
    THEN LowerAlpha[CHOOSE i \in 1..26 : UpperAlpha[i] = c]
    ELSE c

Lower(s) == [i \in 1..Len(s) |-> LowerChar(s[i])]

\* needle in hay
Contains(hay, needle) ==
    \E i \in 1..(Len(hay) - Len(needle) + 1) :
        SubSeq(hay, i, i + Len(needle) - 1) = needle

(***************************************************************************)
(* crawler.py: the policy gate.                                            *)
(***************************************************************************)
CRAWLER_PROPRIETARY_MARKERS ==
    { <<"i","n","s","t","a","g","r","a","m",".","c","o","m">>,
      <<"f","a","c","e","b","o","o","k",".","c","o","m">>,
      <<"w","h","a","t","s","a","p","p",".","c","o","m">>,
      <<"u","b","e","r",".","c","o","m">>,
      <<"a","i","r","b","n","b",".","c","o","m">>,
      <<"t","i","k","t","o","k",".","c","o","m">>,
      <<"t","w","i","t","t","e","r",".","c","o","m">>,
      <<"x",".","c","o","m">>,
      <<"s","n","a","p","c","h","a","t",".","c","o","m">> }

\* A mutant of likely_proprietary_domain: the netloc is not lower-cased.
likely_proprietary_domain_cased(url) ==
    \E k \in CRAWLER_PROPRIETARY_MARKERS : Contains(url.netloc, k)

likely_proprietary_domain(url) ==
    LET p == Lower(url.netloc)
    IN  \E k \in CRAWLER_PROPRIETARY_MARKERS : Contains(p, k)

\* The robots.txt answer of a host: a network error, or a status and a body.
RobotsDisallowAll == <<"U","s","e","r","-","a","g","e","n","t",":"," ","*","\n",
                       "D","i","s","a","l","l","o","w",":"," ","/">>
RobotsAllowAll    == <<"U","s","e","r","-","a","g","e","n","t",":"," ","*","\n",
                       "D","i","s","a","l","l","o","w",":">>
DisallowNeedle    == <<"d","i","s","a","l","l","o","w",":"," ","/">>

RobotsAnswers ==
    { [error |-> TRUE,  status_code |-> 0,   text |-> <<>>],
      [error |-> FALSE, status_code |-> 404, text |-> RobotsDisallowAll],
      [error |-> FALSE, status_code |-> 200, text |-> RobotsAllowAll],
      [error |-> FALSE, status_code |-> 200, text |-> RobotsDisallowAll] }

\* allowed_by_robots(url), given what requests.get(robots_url) answers.
allowed_by_robots(r) ==
    IF r.error THEN TRUE
    ELSE IF r.status_code # 200 THEN TRUE
    ELSE IF Contains(Lower(r.text), DisallowNeedle) THEN FALSE
    ELSE TRUE

(***************************************************************************)
(* crawler.py: URLs, anchors and link extraction.                          *)
(***************************************************************************)
OwnHost    == <<"m","y",".","i","o">>
FaxHost    == <<"f","a","x",".","c","o","m">>
UpperHost  == <<"U","b","e","r",".","C","O","M">>
PortHost   == <<"t","i","k","t","o","k",".","c","o","m",":","8","0">>
OtherHost  == <<"c","d","n",".","i","o">>
DocsHost   == <<"d","o","c","s",".","i","o">>

StartHosts == {OwnHost, FaxHost, UpperHost, PortHost, DocsHost}
Paths      == {"/", "/a", "/b"}
DeepPaths  == Paths \cup {"/c", "/d"}

Url(h, p) == [netloc |-> h, path |-> p]

\* The anchors of a page that links to the paths T of the start host: a
\* javascript: link, a fragment-only link and a link to another host are on every
\* page; "/" is linked relatively, "/a" relatively with a #fragment, "/b" by its
\* absolute URL.
JavascriptHref == [kind |-> "javascript", netloc |-> <<>>, path |-> "", frag |-> FALSE]
FragmentHref   == [kind |-> "fragment", netloc |-> <<>>, path |-> "", frag |-> TRUE]
ForeignHref    == [kind |-> "absolute", netloc |-> OtherHost, path |-> "/", frag |-> FALSE]

LinkTo(p, start) ==
    IF p = "/b" THEN [kind |-> "absolute", netloc |-> start.netloc, path |-> p, frag |-> FALSE]
    ELSE [kind |-> "relative", netloc |-> <<>>, path |-> p, frag |-> (p = "/a")]

PageAnchors(T, start) ==
    {JavascriptHref, FragmentHref, ForeignHref} \cup { LinkTo(p, start) : p \in T }

\* What page.content() can hold for a loaded URL, as the set of paths the page
\* links to.  The pages of docs.io are fixed: "/" links to /a and /b, /a to /b,
\* /c and /d, /c to /d.  A page of any other host may link to any of Paths.
DocsSite ==
    [p \in DeepPaths |-> CASE p = "/"  -> {"/a", "/b"}
                          [] p = "/a" -> {"/b", "/c", "/d"}
                          [] p = "/c" -> {"/d"}
                          [] OTHER    -> {}]

PageChoices(url) ==
    IF url.netloc = DocsHost THEN {DocsSite[url.path]} ELSE SUBSET Paths

\* urljoin(url, href)
urljoin(url, href) ==
    IF href.kind = "absolute"
    THEN [netloc |-> href.netloc, path |-> href.path, frag |-> href.frag]
    ELSE [netloc |-> url.netloc, path |-> href.path, frag |-> href.frag]

\* The loop over soup.find_all("a", href=True): the set `links`.
ExtractLinks(anchors, url, start) ==
    { Url(urljoin(url, a).netloc, urljoin(url, a).path) :
        a \in { h \in anchors :
                  /\ h.kind \notin {"javascript", "fragment"}
                  /\ urljoin(url, h).netloc = start.netloc } }

\* The orders in which `for l in links` can iterate the set.
Perms(S) ==
    { s \in [1..Cardinality(S) -> S] :
        \A i, j \in 1..Cardinality(S) : i # j => s[i] # s[j] }

\* soup.find_all("a", href=True) yields a page's anchors in document order; a
\* page lists its links in the order /, /a, /b, /c, /d.
PathRank(p) ==
    CASE p = "/" -> 1 [] p = "/a" -> 2 [] p = "/b" -> 3 [] p = "/c" -> 4 [] OTHER -> 5

DocumentOrder(links) ==
    CHOOSE order \in Perms(links) :
        \A i, j \in 1..Len(order) : i < j => PathRank(order[i].path) < PathRank(order[j].path)

\* for l in links: if l not in visited and len(visited)+len(queue) < max_pages
RECURSIVE EnqueueLinks(_, _, _, _, _)
EnqueueLinks(order, q, vis, depth, maxp) ==
    IF order = <<>> THEN q
    ELSE LET l  == Head(order)
             q2 == IF l \notin vis /\ Cardinality(vis) + Len(q) < maxp
                   THEN Append(q, [url |-> l, depth |-> depth + 1])
                   ELSE q
         IN  EnqueueLinks(Tail(order), q2, vis, depth, maxp)

\* A mutant of LoopCondition: one more page than the budget is admitted.
LoopConditionOffByOne(q, vis, maxp) == q # <<>> /\ Cardinality(vis) <= maxp

\* while queue and len(visited) < max_pages
\* A mutant of LoopCondition: the loop is left one page before the budget is
\* used up.
LoopConditionEarlyExit(q, vis, maxp) == q # <<>> /\ Cardinality(vis) + 1 < maxp

LoopCondition(q, vis, maxp) == q # <<>> /\ Cardinality(vis) < maxp

\* A mutant of SkipTask: the depth of the task is not looked at.
SkipTaskNoDepth(t, vis, maxd) == t.url \in vis

\* if url in visited or depth > max_depth: continue
SkipTask(t, vis, maxd) == t.url \in vis \/ t.depth > maxd

(***************************************************************************)
(* gen_alpha.py: texts of atoms.  A chunk holds none of {, }, ", `, newline *)
(* or backslash, neither starts nor ends with a blank, and is cut after a  *)
(* leading "json".  The two JSON escapes that occur, \n and \", are atoms  *)
(* of two characters.                                                      *)
(***************************************************************************)
\* The backquote character: the one-character atom written "^" here, since a
\* string of the module cannot hold a backquote.
BT == "^"

EscNewline == "\\n"
EscQuote   == "\\\""

IsSpace(a) == a \in {" ", "\n"}

\* len(text)
RECURSIVE TextLen(_)
TextLen(t) == IF t = <<>> THEN 0 ELSE Len(Head(t)) + TextLen(Tail(t))

\* text.strip()
Strip(t) ==
    LET keep == { i \in 1..Len(t) : ~IsSpace(t[i]) }
    IN  IF keep = {} THEN <<>>
        ELSE SubSeq(t, CHOOSE i \in keep : \A j \in keep : i <= j,
                       CHOOSE i \in keep : \A j \in keep : i >= j)

\* "```" at position i
FenceAt(t, i) == i + 2 <= Len(t) /\ t[i] = BT /\ t[i+1] = BT /\ t[i+2] = BT

\* The first "```" at or after position i, or 0.
FirstFenceFrom(t, i) ==
    LET at == { j \in i..Len(t) : FenceAt(t, j) }
    IN  IF at = {} THEN 0 ELSE CHOOSE j \in at : \A k \in at : j <= k

\* "json" under re.IGNORECASE, in the spellings the inputs use.
JsonTags == {"json", "JSON", "Json"}

\* The end of the run of white space that starts at position i (\s*).
RECURSIVE SkipWs(_, _)
SkipWs(t, i) == IF i <= Len(t) /\ IsSpace(t[i]) THEN SkipWs(t, i + 1) ELSE i

\* The first alternative, ```json\s*([\s\S]*?)```, matches at i.
TaggedFenceAt(t, i) ==
    /\ FenceAt(t, i)
    /\ i + 3 <= Len(t)
    /\ t[i+3] \in JsonTags
    /\ FirstFenceFrom(t, i + 4) # 0

\* The second alternative, ```([\s\S]*?)```, matches at i.
PlainFenceAt(t, i) == FenceAt(t, i) /\ FirstFenceFrom(t, i + 3) # 0

\* A mutant of FenceSearch: a tagged fence anywhere in the text is taken before
\* an untagged one.
FenceSearchTaggedFirst(t) ==
    LET tagged == { i \in 1..Len(t) : TaggedFenceAt(t, i) }
        plain  == { i \in 1..Len(t) : PlainFenceAt(t, i) }
    IN  IF tagged # {}
        THEN LET i == CHOOSE i \in tagged : \A k \in tagged : i <= k
             IN  [found |-> TRUE, start |-> i, tagged |-> TRUE,
                  inner |-> SubSeq(t, SkipWs(t, i + 4), FirstFenceFrom(t, i + 4) - 1)]
        ELSE IF plain # {}
        THEN LET i == CHOOSE i \in plain : \A k \in plain : i <= k
             IN  [found |-> TRUE, start |-> i, tagged |-> FALSE,
                  inner |-> SubSeq(t, i + 3, FirstFenceFrom(t, i + 3) - 1)]
        ELSE [found |-> FALSE, start |-> 0, tagged |-> FALSE, inner |-> <<>>]

\* re.search(r"```json\s*([\s\S]*?)```|```([\s\S]*?)```", text, re.IGNORECASE):
\* the leftmost position where an alternative matches, the first alternative first;
\* inner is group(1) or group(2).
FenceSearch(t) ==
    LET at == { i \in 1..Len(t) : TaggedFenceAt(t, i) \/ PlainFenceAt(t, i) }
    IN  IF at = {} THEN [found |-> FALSE, start |-> 0, tagged |-> FALSE, inner |-> <<>>]
        ELSE LET i == CHOOSE i \in at : \A k \in at : i <= k
             IN  IF TaggedFenceAt(t, i)
                 THEN [found |-> TRUE, start |-> i, tagged |-> TRUE,
                       inner |-> SubSeq(t, SkipWs(t, i + 4), FirstFenceFrom(t, i + 4) - 1)]
                 ELSE [found |-> TRUE, start |-> i, tagged |-> FALSE,
                       inner |-> SubSeq(t, i + 3, FirstFenceFrom(t, i + 3) - 1)]

\* text.replace('```', '')
RECURSIVE RemoveFences(_, _)
RemoveFences(t, i) ==
    IF i > Len(t) THEN <<>>
    ELSE IF FenceAt(t, i) THEN RemoveFences(t, i + 3)
    ELSE <<t[i]>> \o RemoveFences(t, i + 1)

\* text.replace('"""', '"')
RECURSIVE CollapseTripleQuotes(_, _)
CollapseTripleQuotes(t, i) ==
    IF i > Len(t) THEN <<>>
    ELSE IF i + 2 <= Len(t) /\ t[i] = "\"" /\ t[i+1] = "\"" /\ t[i+2] = "\""
         THEN <<"\"">> \o CollapseTripleQuotes(t, i + 3)
    ELSE <<t[i]>> \o CollapseTripleQuotes(t, i + 1)

ShortTextLen == 5
LongTextLen  == 10

\* sanitize_llm_output, steps 1 to 3: the text the brace scan is run on.
TextToParse(text) ==
    LET m  == FenceSearch(text)
        t1 == IF m.found THEN Strip(m.inner) ELSE Strip(text)
        t2 == IF TextLen(t1) < ShortTextLen /\ TextLen(text) > LongTextLen
              THEN Strip(RemoveFences(text, 1))
              ELSE t1
    IN  CollapseTripleQuotes(t2, 1)

\* A mutant of FindBrace: the last "{" is taken (rfind).
FindBraceLast(t) ==
    LET at == { i \in 1..Len(t) : t[i] = "{" }
    IN  IF at = {} THEN 0 ELSE CHOOSE i \in at : \A k \in at : i >= k

\* text.find("{"), counted from 1; 0 for -1.
FindBrace(t) ==
    LET at == { i \in 1..Len(t) : t[i] = "{" }
    IN  IF at = {} THEN 0 ELSE CHOOSE i \in at : \A k \in at : i <= k

\* A mutant of ScanEnd: the scan stops at the first "}" whatever the depth.
RECURSIVE ScanEndFirstClose(_, _, _)
ScanEndFirstClose(t, i, depth) ==
    IF i > Len(t) THEN 0
    ELSE IF t[i] = "}" THEN i
    ELSE ScanEndFirstClose(t, i + 1, depth)

\* The balancing scan, lines 79-89: end_index counted from 1; 0 for -1.
RECURSIVE ScanEnd(_, _, _)
ScanEnd(t, i, depth) ==
    IF i > Len(t) THEN 0
    ELSE IF t[i] = "{" THEN ScanEnd(t, i + 1, depth + 1)
    ELSE IF t[i] = "}"
         THEN IF depth - 1 = 0 THEN i ELSE ScanEnd(t, i + 1, depth - 1)
    ELSE ScanEnd(t, i + 1, depth)

\* sanitize_llm_output(text): the JSON text, or the error raised.
sanitize_llm_output(text) ==
    LET ttp   == TextToParse(text)
        start == FindBrace(ttp)
    IN  IF start = 0
        THEN [kind |-> "NoJsonFound", json_text |-> <<>>]
        ELSE LET cut       == SubSeq(ttp, start, Len(ttp))
                 end_index == ScanEnd(cut, 1, 0)
             IN  IF end_index = 0
                 THEN [kind |-> "UnbalancedOutput", json_text |-> <<>>]
                 ELSE [kind |-> "ok", json_text |-> SubSeq(cut, 1, end_index)]

(***************************************************************************)
(* json.loads and json.dumps on texts of atoms.  A JSON value is a string  *)
(* [t |-> "str", s |-> text], an object [t |-> "obj", m |-> key -> value]  *)
(* (keys are texts) or a literal [t |-> "lit", v |-> atom].                *)
(***************************************************************************)
JsonLiterals == {"1", "null", "true"}

EmptyMap == [k \in {} |-> <<>>]

JStr(text) == [t |-> "str", s |-> text, m |-> EmptyMap, v |-> ""]
JObj(map)  == [t |-> "obj", s |-> <<>>, m |-> map, v |-> ""]
JLit(atom) == [t |-> "lit", s |-> <<>>, m |-> EmptyMap, v |-> atom]

ParseFail == [ok |-> FALSE, val |-> JLit("null"), next |-> 0]
ParseOk(val, next) == [ok |-> TRUE, val |-> val, next |-> next]

\* The text of a string literal's body, its escapes decoded.
Unescape(t) ==
    [i \in 1..Len(t) |-> IF t[i] = EscNewline THEN "\n"
                         ELSE IF t[i] = EscQuote THEN "\"" ELSE t[i]]

Escape(t) ==
    [i \in 1..Len(t) |-> IF t[i] = "\n" THEN EscNewline
                         ELSE IF t[i] = "\"" THEN EscQuote ELSE t[i]]

\* A string literal that starts at position i: it ends at the next quote, and a
\* raw newline in it is an error (a control character).
ParseString(t, i) ==
    LET close == { j \in (i+1)..Len(t) : t[j] = "\"" }
    IN  IF i > Len(t) \/ t[i] # "\"" \/ close = {} THEN ParseFail
        ELSE LET j    == CHOOSE j \in close : \A k \in close : j <= k
                 body == SubSeq(t, i + 1, j - 1)
             IN  IF \E k \in 1..Len(body) : body[k] = "\n" THEN ParseFail
                 ELSE ParseOk(JStr(Unescape(body)), j + 1)

Put(map, key, val) ==
    [k \in (DOMAIN map) \cup {key} |-> IF k = key THEN val ELSE map[k]]

\* The one element of a one-element set: Only({ e(x) : x \in {v} }) is e(x) with
\* x bound to the value of v, computed once.
Only(S) == CHOOSE x \in S : TRUE

RECURSIVE ParseValue(_, _)
RECURSIVE ParseMembers(_, _, _)

\* The members of an object from position i (a key is expected there) to its "}".
ParseMembers(t, i, acc) ==
    Only({ IF ~key.ok THEN ParseFail
           ELSE Only({ IF c > Len(t) \/ t[c] # ":" THEN ParseFail
                       ELSE Only({ IF ~val.ok THEN ParseFail
                                   ELSE Only({ IF d > Len(t) THEN ParseFail
                                               ELSE IF t[d] = "}"
                                                    THEN ParseOk(JObj(acc2), d + 1)
                                               ELSE IF t[d] = ","
                                                    THEN Only({ ParseMembers(t, n, acc2) :
                                                                  n \in {SkipWs(t, d + 1)} })
                                               ELSE ParseFail :
                                               d \in {SkipWs(t, val.next)},
                                               acc2 \in {Put(acc, key.val.s, val.val)} }) :
                                   val \in {ParseValue(t, c + 1)} }) :
                       c \in {SkipWs(t, key.next)} }) :
           key \in {ParseString(t, i)} })

ParseValue(t, i) ==
    Only({ IF j > Len(t) THEN ParseFail
           ELSE IF t[j] = "\"" THEN ParseString(t, j)
           ELSE IF t[j] = "{"
                THEN Only({ IF k <= Len(t) /\ t[k] = "}" THEN ParseOk(JObj(EmptyMap), k + 1)
                            ELSE ParseMembers(t, k, EmptyMap) :
                            k \in {SkipWs(t, j + 1)} })
           ELSE IF t[j] \in JsonLiterals THEN ParseOk(JLit(t[j]), j + 1)
           ELSE ParseFail :
           j \in {SkipWs(t, i)} })

\* json.loads(text): the value, or ok = FALSE for a JSONDecodeError.
json_loads(t) ==
    LET r == ParseValue(t, 1)
    IN  IF r.ok /\ SkipWs(t, r.next) > Len(t) THEN r ELSE ParseFail

\* The keys of a mapping in the order json.dumps writes them (one fixed order:
\* the mappings of the model do not record the order of insertion).
RECURSIVE KeyOrder(_)
KeyOrder(S) ==
    IF S = {} THEN <<>>
    ELSE Only({ <<k>> \o Only({ KeyOrder(R) : R \in {S \ {k}} }) : k \in {Only(S)} })

RECURSIVE Blanks(_)
Blanks(n) == IF n <= 0 THEN <<>> ELSE <<" ">> \o Blanks(n - 1)

RECURSIVE json_dumps(_, _, _)
RECURSIVE DumpMembers(_, _, _, _)

\* The members of mapping m named by keys, written at nesting level.
DumpMembers(m, keys, indent, level) ==
    IF keys = <<>> THEN <<>>
    ELSE LET k    == Head(keys)
             lead == IF indent > 0 THEN <<"\n">> \o Blanks(indent * level) ELSE <<>>
             sep  == IF Len(keys) = 1 THEN <<>>
                     ELSE IF indent > 0 THEN <<",">> ELSE <<",", " ">>
         IN  lead \o <<"\"">> \o Escape(k) \o <<"\"", ":", " ">>
                  \o json_dumps(m[k], indent, level) \o sep
                  \o DumpMembers(m, Tail(keys), indent, level)

\* json.dumps(v) (indent = 0) and json.dumps(v, indent=2) (indent = 2).
json_dumps(v, indent, level) ==
    IF v.t = "str" THEN <<"\"">> \o Escape(v.s) \o <<"\"">>
    ELSE IF v.t = "lit" THEN <<v.v>>
    ELSE IF DOMAIN v.m = {} THEN <<"{", "}">>
    ELSE <<"{">> \o DumpMembers(v.m, KeyOrder(DOMAIN v.m), indent, level + 1)
               \o (IF indent > 0 THEN <<"\n">> \o Blanks(indent * level) ELSE <<>>)
               \o <<"}">>

(***************************************************************************)
(* gen_alpha.py: the policy check on the aggregated UX spec.               *)
(***************************************************************************)
GEN_PROPRIETARY_MARKERS ==
    { <<"i","n","s","t","a","g","r","a","m">>,
      <<"f","a","c","e","b","o","o","k">>,
      <<"w","h","a","t","s","a","p","p">>,
      <<"u","b","e","r">>,
      <<"a","i","r","b","n","b">>,
      <<"t","i","k","t","o","k">>,
      <<"t","w","i","t","t","e","r">>,
      <<"s","n","a","p","c","h","a","t">>,
      <<"x",".","c","o","m">> }

\* Python's None, where a string is expected.
NoneValue == <<"None">>

\* v or ""
OrEmpty(v) == IF v = NoneValue THEN <<>> ELSE v

\* A mutant of likely_proprietary_spec: the page titles are not looked at.
likely_proprietary_spec_domain_only(spec) ==
    \E x \in GEN_PROPRIETARY_MARKERS : Contains(Lower(OrEmpty(spec.domain)), x)

likely_proprietary_spec(spec) ==
    \/ \E x \in GEN_PROPRIETARY_MARKERS : Contains(Lower(OrEmpty(spec.domain)), x)
    \/ \E i \in 1..Len(spec.pages) :
         \E x \in GEN_PROPRIETARY_MARKERS :
             Contains(Lower(OrEmpty(spec.pages[i].title)), x)

(***************************************************************************)
(* gen_alpha.py: the default file set and the assembler.  The contents of  *)
(* the default files are cut to their first lines.                         *)
(***************************************************************************)
ServerKey       == <<"server.py">>
RequirementsKey == <<"requirements.txt">>
ReadmeKey       == <<"README.md">>

needed_frontend ==
    { <<"frontend/package.json">>, <<"frontend/vite.config.js">>,
      <<"frontend/index.html">>, <<"frontend/src/main.jsx">>,
      <<"frontend/src/App.jsx">>, <<"frontend/src/components/AutoLayout.jsx">> }

DefaultContent(k) ==
    IF k = ServerKey
    THEN <<"import os", "\n",
           "from flask import Flask, send_from_directory, jsonify, request", "\n",
           "from flask_cors import CORS", "\n">>
    ELSE IF k = RequirementsKey THEN <<"flask", "\n", "flask_cors", "\n">>
    ELSE IF k = ReadmeKey THEN <<"# React + Flask Generated App", EscNewline, EscNewline>>
    ELSE IF k = <<"frontend/package.json">>
         THEN <<"{", "\n", " ", " ", "\"", "name", "\"", ":", " ", "\"", "react-app", "\"", "\n", "}">>
    ELSE IF k = <<"frontend/vite.config.js">>
         THEN <<"import { defineConfig } from 'vite';", "\n">>
    ELSE IF k = <<"frontend/index.html">> THEN <<"<!doctype html>", "\n", "<html>", "\n">>
    ELSE IF k = <<"frontend/src/main.jsx">> THEN <<"import React from 'react';", "\n">>
    ELSE IF k = <<"frontend/src/App.jsx">>
         THEN <<"import React, {useEffect, useState} from 'react';", "\n">>
    ELSE <<"import React from 'react';", "\n", "export default function AutoLayout({children}){", "\n">>

DEFAULT_FILES ==
    [k \in {ServerKey, RequirementsKey, ReadmeKey} \cup needed_frontend |-> DefaultContent(k)]

MinServerLen == 50

\* str(v) of a JSON literal
PyStr(atom) ==
    IF atom = "null" THEN "None" ELSE IF atom = "true" THEN "True" ELSE atom

\* Lines 389-393: what is stored for a model-provided value.
Stringify(v) ==
    IF v.t = "obj" THEN json_dumps(v, 2, 0)
    ELSE IF v.t = "str" THEN v.s
    ELSE <<PyStr(v.v)>>

\* A mutant of Overlay: the merge does not start from the defaults.
OverlayModelOnly(files) == [k \in DOMAIN files |-> Stringify(files[k])]

\* Lines 386-393: the defaults, overlaid with the model's files.
Overlay(files) ==
    [k \in (DOMAIN DEFAULT_FILES) \cup (DOMAIN files) |->
        IF k \in DOMAIN files THEN Stringify(files[k]) ELSE DEFAULT_FILES[k]]

HasNewline(t) == \E i \in 1..Len(t) : t[i] = "\n"

\* A mutant of EnsureServer: a one-line server.py is kept.
EnsureServerLengthOnly(ff) ==
    LET sp == IF ServerKey \in DOMAIN ff THEN ff[ServerKey] ELSE <<>>
    IN  IF TextLen(Strip(sp)) < MinServerLen
        THEN Put(ff, ServerKey, DEFAULT_FILES[ServerKey])
        ELSE ff

\* Lines 396-398
EnsureServer(ff) ==
    LET sp == IF ServerKey \in DOMAIN ff THEN ff[ServerKey] ELSE <<>>
    IN  IF TextLen(Strip(sp)) < MinServerLen \/ ~HasNewline(sp)
        THEN Put(ff, ServerKey, DEFAULT_FILES[ServerKey])
        ELSE ff

\* Lines 401-402
EnsureRequirements(ff) ==
    IF RequirementsKey \notin DOMAIN ff \/ Strip(ff[RequirementsKey]) = <<>>
    THEN Put(ff, RequirementsKey, DEFAULT_FILES[RequirementsKey])
    ELSE ff

\* Lines 405-415
EnsureFrontend(ff) ==
    [k \in (DOMAIN ff) \cup needed_frontend |->
        IF k \in DOMAIN ff THEN ff[k]
        ELSE IF k \in DOMAIN DEFAULT_FILES THEN DEFAULT_FILES[k] ELSE <<>>]

\* generate_scaffold, lines 386-415: final_files
Assemble(files) == EnsureFrontend(EnsureRequirements(EnsureServer(Overlay(files))))

(***************************************************************************)
(* gen_alpha.py: call_ollama_for_files.  A response of the model is        *)
(* [raises, content]: ollama.chat raises, or answers with content;         *)
(* available is _OLLAMA_AVAILABLE.                                         *)
(***************************************************************************)
CallFail(kind) == [kind |-> kind, files |-> EmptyMap]

\* Lines 188-191, on the parsed object.
FilesOf(parsed) ==
    IF <<"files">> \notin DOMAIN parsed.m \/ parsed.m[<<"files">>].t # "obj"
    THEN CallFail("MissingFilesKey")
    ELSE [kind |-> "ok", files |-> parsed.m[<<"files">>].m]

\* Lines 187-191, on what json.loads gives.
FilesOfLoaded(loaded) ==
    IF ~loaded.ok THEN CallFail("MalformedJson") ELSE FilesOf(loaded.val)

\* Lines 186-191, on what sanitize_llm_output gives.
FilesOfClean(cleaned) ==
    IF cleaned.kind # "ok" THEN CallFail(cleaned.kind)
    ELSE FilesOfLoaded(json_loads(cleaned.json_text))

\* call_ollama_for_files(prompt), given the model's response: the files mapping
\* returned, or the error wrapped into the RuntimeError raised.
call_ollama_for_files(available, resp) ==
    IF ~available THEN CallFail("NotAvailable")
    ELSE IF resp.raises THEN CallFail("ChatRaised")
    ELSE IF resp.content = <<>> THEN CallFail("EmptyResponse")
    ELSE FilesOfClean(sanitize_llm_output(resp.content))

(***************************************************************************)
(* extractor.py: extract_components_from_html.  A document is the sequence *)
(* of the tags of its elements in document order, the order in which       *)
(* soup.find_all gives them; an entry of components keeps its type, the    *)
(* tag and the position of the element it was made from (0 for an          *)
(* aggregate entry), and for the aggregates the count and the items.  The  *)
(* attributes and the texts of the elements, which fill the other fields   *)
(* of an entry, the title and the features are not modelled.               *)
(***************************************************************************)
ElementTags ==
    {"button", "a", "input", "form", "nav", "ul", "ol", "table", "img",
     "h1", "h2", "h3", "h4", "p"}

\* soup.find_all(tags): the positions of the elements, in document order.
RECURSIVE FindAll(_, _, _)
FindAll(doc, tags, i) ==
    IF i > Len(doc) THEN <<>>
    ELSE (IF doc[i] \in tags THEN <<i>> ELSE <<>>) \o FindAll(doc, tags, i + 1)

Entry(type, tag, pos, count, items) ==
    [type |-> type, tag |-> tag, pos |-> pos, count |-> count, items |-> items]

\* One pass of the form "for e in soup.find_all(tags): append an entry".
EntriesOf(doc, type, tags) ==
    [k \in 1..Len(FindAll(doc, tags, 1)) |->
        Entry(type, doc[FindAll(doc, tags, 1)[k]], FindAll(doc, tags, 1)[k], 0, <<>>)]

MaxImageSamples == 10
MaxHeadingItems == 50

\* seq[:n]
Take(seq, n) == SubSeq(seq, 1, IF Len(seq) < n THEN Len(seq) ELSE n)

\* A mutant of ImagesEntries: one entry is made for each img element.
ImagesEntriesEach(doc) == EntriesOf(doc, "images", {"img"})

\* Lines 75-81: the aggregate entry of the img elements.
ImagesEntries(doc) ==
    IF FindAll(doc, {"img"}, 1) = <<>> THEN <<>>
    ELSE <<Entry("images", "img", 0, Len(FindAll(doc, {"img"}, 1)),
                 Take(FindAll(doc, {"img"}, 1), MaxImageSamples))>>

\* Lines 84-87: the headings, level by level.
HeadingItems(doc) ==
    FindAll(doc, {"h1"}, 1) \o FindAll(doc, {"h2"}, 1)
        \o FindAll(doc, {"h3"}, 1) \o FindAll(doc, {"h4"}, 1)

\* Lines 88-89
HeadingsEntries(doc) ==
    IF HeadingItems(doc) = <<>> THEN <<>>
    ELSE <<Entry("headings", "h", 0, Len(HeadingItems(doc)),
                 Take(HeadingItems(doc), MaxHeadingItems))>>

\* comps["components"] when extract_components_from_html returns.
extract_components_from_html(doc) ==
    EntriesOf(doc, "clickable", {"button", "a", "input"})
        \o EntriesOf(doc, "form", {"form"})
        \o EntriesOf(doc, "nav", {"nav"})
        \o EntriesOf(doc, "list", {"ul", "ol"})
        \o EntriesOf(doc, "table", {"table"})
        \o ImagesEntries(doc)
        \o HeadingsEntries(doc)

(***************************************************************************)
(* The state of one crawl(start_url, max_pages, max_depth) call.           *)
(***************************************************************************)
VARIABLES
    start_url,    \* argument
    max_pages,    \* argument
    max_depth,    \* argument
    robots,       \* what the host answers for /robots.txt
    cpc,          \* position in crawl: idle, start, loop, done, rejected, failed
    out_dir,      \* whether os.makedirs(out_dir) has run
    browser,      \* whether the rendering session is held
    page,         \* what the shared page shows: its URL and anchors
    fetches,      \* number of page.goto calls so far
    visited,      \* set of URLs
    queue,        \* sequence of tasks [url, depth]
    results,      \* URL -> page record
    last_nav,     \* history: how the last capture went
    enqueued,     \* history: the URLs put on the queue, in order
    dequeued,     \* history: the tasks taken off the queue
    processed     \* history: the tasks taken off the queue and not skipped

cvars == <<start_url, max_pages, max_depth, robots, cpc, out_dir, browser, page,
           fetches, visited, queue, results, last_nav, enqueued, dequeued, processed>>

VARIABLES
    ux_spec,          \* argument of generate_scaffold
    ollama_available, \* _OLLAMA_AVAILABLE
    gpc,              \* position in generate_scaffold: idle, start, prompted,
                      \* called, packaged, rejected
    prompt,           \* the prompt built, or NoPrompt
    model_calls,      \* number of ollama.chat calls so far
    call_result,      \* history: what call_ollama_for_files came to
    files,            \* the model-output map
    final_files,      \* the assembled file set
    out_zip           \* what make_zip wrote: a file set, or NoZip

gvars == <<ux_spec, ollama_available, gpc, prompt, model_calls, call_result, files,
           final_files, out_zip>>

VARIABLES
    raw,       \* the content of the model's response
    origin,    \* history: how raw was made
    spc,       \* position in call_ollama_for_files: idle, start, sanitized,
               \* loaded, returned, raised
    clean,     \* what sanitize_llm_output came to
    parsed,    \* what json.loads came to
    sret       \* what call_ollama_for_files returns or raises

svars == <<raw, origin, spc, clean, parsed, sret>>

VARIABLES
    html_content,  \* argument of extract_components_from_html
    epc,           \* position in extract_components_from_html: idle, start, done
    comps          \* comps["components"]

evars == <<html_content, epc, comps>>

vars == <<cvars, gvars, svars, evars>>

\* What crawl was called with, and what it has seen: unchanged by an iteration.
cargs == <<start_url, max_pages, max_depth, robots>>

\* The page of a new browser context shows about:blank, which has no anchors.
AboutBlank == [netloc |-> <<>>, path |-> "about:blank"]

BlankPage == [url |-> AboutBlank, anchors |-> {}]

CrawlInit ==
    /\ start_url \in { Url(h, "/") : h \in StartHosts }
    /\ max_pages \in -1..MaxPagesBound
    /\ max_depth \in -1..MaxDepthBound
    /\ robots \in RobotsAnswers
    /\ cpc = "start"
    /\ out_dir = FALSE
    /\ browser = FALSE
    /\ page = BlankPage
    /\ fetches = 0
    /\ visited = {}
    /\ queue = <<>>
    /\ results = <<>>
    /\ last_nav = "none"
    /\ enqueued = <<>>
    /\ dequeued = {}
    /\ processed = {}

\* crawl, lines 33-38: the policy gate raises.
CrawlReject ==
    /\ cpc = "start"
    /\ likely_proprietary_domain(start_url)
    /\ out_dir' = TRUE
    /\ cpc' = "rejected"
    /\ UNCHANGED <<cargs, browser, page, fetches, visited, queue, results,
                   last_nav, enqueued, dequeued, processed>>
    /\ UNCHANGED <<gvars, svars, evars>>

\* crawl, lines 33-47: the gate passes, the queue is seeded, the browser launched.
CrawlLaunch ==
    /\ cpc = "start"
    /\ ~likely_proprietary_domain(start_url)
    /\ out_dir' = TRUE
    /\ visited' = {}
    /\ queue' = <<[url |-> start_url, depth |-> 0]>>
    /\ enqueued' = <<start_url>>
    /\ results' = <<>>
    /\ browser' = TRUE
    /\ page' = BlankPage
    /\ cpc' = "loop"
    /\ UNCHANGED <<cargs, fetches, last_nav, dequeued, processed>>
    /\ UNCHANGED <<gvars, svars, evars>>

\* crawl, lines 33-47: the rendering session cannot be acquired; crawl raises.
CrawlLaunchFail ==
    /\ cpc = "start"
    /\ ~likely_proprietary_domain(start_url)
    /\ out_dir' = TRUE
    /\ queue' = <<[url |-> start_url, depth |-> 0]>>
    /\ enqueued' = <<start_url>>
    /\ cpc' = "failed"
    /\ UNCHANGED <<cargs, browser, page, fetches, visited, results, last_nav,
                   dequeued, processed>>
    /\ UNCHANGED <<gvars, svars, evars>>

\* One iteration, lines 49-52: the task is popped and skipped.
CrawlSkip ==
    /\ cpc = "loop"
    /\ LoopCondition(queue, visited, max_pages)
    /\ SkipTask(Head(queue), visited, max_depth)
    /\ queue' = Tail(queue)
    /\ dequeued' = dequeued \cup {Head(queue)}
    /\ UNCHANGED <<cargs, cpc, out_dir, browser, page, fetches, visited, results,
                   last_nav, enqueued, processed>>
    /\ UNCHANGED <<gvars, svars, evars>>

\* One iteration, lines 49-104: the task is popped, the page captured, its links
\* extracted, the record stored, the URL marked visited, the links enqueued.
\* nav: "ok" (goto and the idle wait return), "idle" (goto returns, the idle wait
\* times out: the new page is shown), "stale" (goto raises: the page still shows
\* what it showed), "nocontent" (page.content() raises: content is "").
\* shot: whether page.screenshot wrote its file.  The record's text_snippet, cut
\* from the same content as its links, is not modelled.
CrawlVisit ==
    /\ cpc = "loop"
    /\ LoopCondition(queue, visited, max_pages)
    /\ ~SkipTask(Head(queue), visited, max_depth)
    /\ \E nav \in {"ok", "idle", "stale", "nocontent"}, shot \in BOOLEAN :
       \E T \in IF nav \in {"ok", "idle"} THEN PageChoices(Head(queue).url) ELSE {{}} :
         LET url    == Head(queue).url
             depth  == Head(queue).depth
             rest   == Tail(queue)
             shown  == IF nav \in {"ok", "idle"}
                       THEN [url |-> url, anchors |-> PageAnchors(T, start_url)]
                       ELSE page
             content == IF nav = "nocontent" THEN BlankPage ELSE shown
             links  == ExtractLinks(content.anchors, url, start_url)
             vis2   == visited \cup {url}
         IN  /\ page' = shown
             /\ fetches' = fetches + 1
             /\ last_nav' = nav
             /\ results' = [u \in (DOMAIN results) \cup {url} |->
                              IF u = url
                              THEN [url |-> url, screenshot |-> shot,
                                    html |-> content.url, links |-> links]
                              ELSE results[u]]
             /\ visited' = vis2
             /\ \E order \in Perms(links) :
                  /\ queue' = EnqueueLinks(order, rest, vis2, depth, max_pages)
                  /\ enqueued' = enqueued \o
                       [i \in 1..(Len(queue') - Len(rest)) |-> queue'[Len(rest) + i].url]
             /\ dequeued' = dequeued \cup {Head(queue)}
             /\ processed' = processed \cup {Head(queue)}
    /\ UNCHANGED <<cargs, cpc, out_dir, browser>>
    /\ UNCHANGED <<gvars, svars, evars>>

\* Lines 49, 106-107: the loop condition fails; the browser is closed and the
\* results returned.
CrawlFinish ==
    /\ cpc = "loop"
    /\ ~LoopCondition(queue, visited, max_pages)
    /\ browser' = FALSE
    /\ cpc' = "done"
    /\ UNCHANGED <<cargs, out_dir, page, fetches, visited, queue, results,
                   last_nav, enqueued, dequeued, processed>>
    /\ UNCHANGED <<gvars, svars, evars>>

CrawlNext ==
    \/ CrawlReject
    \/ CrawlLaunch
    \/ CrawlLaunchFail
    \/ CrawlSkip
    \/ CrawlVisit
    \/ CrawlFinish

\* No crawl is running.
CrawlIdle ==
    /\ start_url = Url(OwnHost, "/")
    /\ max_pages = 0
    /\ max_depth = 0
    /\ robots = [error |-> TRUE, status_code |-> 0, text |-> <<>>]
    /\ cpc = "idle"
    /\ out_dir = FALSE
    /\ browser = FALSE
    /\ page = BlankPage
    /\ fetches = 0
    /\ visited = {}
    /\ queue = <<>>
    /\ results = <<>>
    /\ last_nav = "none"
    /\ enqueued = <<>>
    /\ dequeued = {}
    /\ processed = {}

(***************************************************************************)
(* One generate_scaffold(ux_spec) call.                                    *)
(***************************************************************************)
MaxSpecPages == 1

SpecDomains == { OwnHost, <<"u","b","e","r",".","i","o">>, NoneValue }
SpecTitles  == { <<"H","o","m","e">>, <<"M","y"," ","T","i","k","T","o","k">>, NoneValue }

RECURSIVE SeqsUpTo(_, _)
SeqsUpTo(S, n) ==
    IF n = 0 THEN {<<>>}
    ELSE LET prev == SeqsUpTo(S, n - 1)
         IN  prev \cup { Append(q, x) : q \in prev, x \in S }

UxSpecs ==
    { [domain |-> d, pages |-> ps] :
        d \in SpecDomains,
        ps \in { [i \in 1..Len(q) |-> [title |-> q[i]]] : q \in SeqsUpTo(SpecTitles, MaxSpecPages) } }

NoPrompt  == [built |-> FALSE, spec |-> [domain |-> NoneValue, pages |-> <<>>]]
NoZip     == [written |-> FALSE, files |-> EmptyMap]
NoCall    == CallFail("none")

\* The values the model gives a file.
Chunk60 == "from flask import Flask; app = Flask(__name__); app.run(); f"
Chunk48 == "app = Flask(__name__); app.run(port=5000); pass;"
Chunk49 == "app = Flask(__name__); app.run(port=5000); pass;;"

FileValues ==
    { JStr(<<>>),
      JStr(<<Chunk60>>),
      JStr(<<"import os", "\n", "x = 1">>),
      JStr(<<"a", "\n", Chunk48>>),
      JStr(<<"\n", Chunk49, " ", "\n">>),
      JLit("null"),
      JObj(Put(EmptyMap, <<"main">>, JStr(<<Chunk60>>))) }

ModelKeys == { ServerKey, RequirementsKey, <<"frontend/index.html">>, <<"notes.md">> }

ModelFileMaps == UNION { [K -> FileValues] : K \in SUBSET ModelKeys }

F3 == <<BT, BT, BT>>

\* What the model answers: a files object, bare or fenced, and texts that make
\* each failure of the generation path.
ModelTexts ==
    { json_dumps(JObj(Put(EmptyMap, <<"files">>, JObj(f))), 0, 0) : f \in ModelFileMaps }
    \cup { F3 \o <<"json", "\n">>
              \o json_dumps(JObj(Put(EmptyMap, <<"files">>, JObj(f))), 2, 0)
              \o <<"\n">> \o F3 : f \in [{ServerKey} -> FileValues] }
    \cup { <<>>,
           <<"I cannot help with that.">>,
           <<"{", " ", "\"", "a", "\"", ":", " ", "1", " ">>,
           <<"{", "files", "}">>,
           <<"{", "\"", "a", "\"", ":", " ", "1", "}">>,
           <<"{", "\"", "files", "\"", ":", " ", "1", "}">>,
           <<"{", "\"", "files", "\"", ":", " ", "\"", "server.py", "\"", "}">> }

ModelResponses ==
    { [raises |-> TRUE, content |-> <<>>] }
    \cup { [raises |-> FALSE, content |-> t] : t \in ModelTexts }

GenInit ==
    /\ ux_spec \in UxSpecs
    /\ ollama_available \in BOOLEAN
    /\ gpc = "start"
    /\ prompt = NoPrompt
    /\ model_calls = 0
    /\ call_result = NoCall
    /\ files = EmptyMap
    /\ final_files = EmptyMap
    /\ out_zip = NoZip

GenIdle ==
    /\ ux_spec = [domain |-> NoneValue, pages |-> <<>>]
    /\ ollama_available = FALSE
    /\ gpc = "idle"
    /\ prompt = NoPrompt
    /\ model_calls = 0
    /\ call_result = NoCall
    /\ files = EmptyMap
    /\ final_files = EmptyMap
    /\ out_zip = NoZip

\* Lines 370-371: the policy check raises.
GenReject ==
    /\ gpc = "start"
    /\ likely_proprietary_spec(ux_spec)
    /\ gpc' = "rejected"
    /\ UNCHANGED <<ux_spec, ollama_available, prompt, model_calls, call_result,
                   files, final_files, out_zip>>
    /\ UNCHANGED <<cvars, svars, evars>>

\* Lines 370-375: the check passes and the prompt is built.
GenPrompt ==
    /\ gpc = "start"
    /\ ~likely_proprietary_spec(ux_spec)
    /\ prompt' = [built |-> TRUE, spec |-> ux_spec]
    /\ files' = EmptyMap
    /\ gpc' = "prompted"
    /\ UNCHANGED <<ux_spec, ollama_available, model_calls, call_result,
                   final_files, out_zip>>
    /\ UNCHANGED <<cvars, svars, evars>>

\* Lines 377-382, the model configured: the call, and the except clause.
GenCall ==
    /\ gpc = "prompted"
    /\ ollama_available
    /\ \E resp \in ModelResponses :
         /\ call_result' = call_ollama_for_files(ollama_available, resp)
         /\ files' = IF call_result'.kind = "ok" THEN call_result'.files
                     ELSE EmptyMap
    /\ model_calls' = model_calls + 1
    /\ gpc' = "called"
    /\ UNCHANGED <<ux_spec, ollama_available, prompt, final_files, out_zip>>
    /\ UNCHANGED <<cvars, svars, evars>>

\* Line 378, the model not configured: files = {}.
GenNoModel ==
    /\ gpc = "prompted"
    /\ ~ollama_available
    /\ call_result' = CallFail("NotConfigured")
    /\ files' = EmptyMap
    /\ gpc' = "called"
    /\ UNCHANGED <<ux_spec, ollama_available, prompt, model_calls, final_files, out_zip>>
    /\ UNCHANGED <<cvars, svars, evars>>

\* Lines 384-423: the merge, the validation, make_zip.
GenPackage ==
    /\ gpc = "called"
    /\ final_files' = Assemble(files)
    /\ out_zip' = [written |-> TRUE, files |-> Assemble(files)]
    /\ gpc' = "packaged"
    /\ UNCHANGED <<ux_spec, ollama_available, prompt, model_calls, call_result, files>>
    /\ UNCHANGED <<cvars, svars, evars>>

GenNext ==
    \/ GenReject
    \/ GenPrompt
    \/ GenCall
    \/ GenNoModel
    \/ GenPackage

(***************************************************************************)
(* One call_ollama_for_files call, from the response on (lines 181-191).   *)
(***************************************************************************)
MaxPieces == 5

Pieces ==
    { F3,
      F3 \o <<"JSON", "\n">>,
      <<"{">>,
      <<"}">>,
      <<"\"", "\"", "\"">>,
      <<"Here you go:">> }

\* The texts made of at most n pieces.
RECURSIVE PieceTexts(_)
PieceTexts(n) ==
    IF n = 0 THEN {<<>>}
    ELSE LET prev == PieceTexts(n - 1)
         IN  prev \cup { p \o t : p \in Pieces, t \in prev }

\* The JSON objects with a top-level "files" mapping, and their wrappings.
FileNames    == { <<"a.txt">>, <<"b.py">> }
FileContents ==
    { <<"x">>, <<>>, <<"{">>, <<"}">>, <<"{", "}">>, F3,
      <<"\"", "\"", "\"">>, <<"a", "\n", "b">> }

FilesObjects ==
    { JObj(Put(EmptyMap, <<"files">>, JObj([k \in DOMAIN f |-> JStr(f[k])]))) :
        f \in UNION { [K -> FileContents] : K \in SUBSET FileNames } }

Prefixes == { <<>>, <<"Sure!", " ">>, <<"Fill", " ", "{", "name", "}", ":", " ">>,
              F3 \o <<"note">> \o F3 \o <<" ">> }
Suffixes == { <<>>, <<"\n", "Enjoy", " ", "{", "}">>, <<" ">> \o F3 \o <<"pip install">> \o F3 }
Fences   == { "none", "json", "JSON", "plain" }

Wrap(pre, fence, post, body) ==
    pre \o (IF fence = "none" THEN body
            ELSE IF fence = "json" THEN F3 \o <<"json", "\n">> \o body \o <<"\n">> \o F3
            ELSE IF fence = "JSON" THEN F3 \o <<"JSON">> \o body \o F3
            ELSE F3 \o <<"\n">> \o body \o <<"\n">> \o F3)
        \o post

\* The two failing inputs the specification of the sanitizer names.
FailureExamples ==
    { <<"Sorry, I have no answer.">>,
      <<"{", " ", "\"", "a", "\"", ":", " ", "1", " ">> }

\* Model texts made of two fenced blocks: each block untagged or tagged json,
\* holding nothing, prose of 4 or 5 characters, an object, an object with a
\* files mapping or an unbalanced brace; the blocks adjacent or apart.
BlockTags   == { <<>>, <<"\n">>, <<"json", "\n">> }
BlockBodies ==
    { <<>>, <<"note">>, <<"notes">>, <<"{", "}">>, <<"{", "{", "}">>,
      <<"{", "\"", "files", "\"", ":", " ", "{", "}", "}">> }
BlockGaps   == { <<>>, <<"\n", "and", "\n">> }

Block(tag, body) == F3 \o tag \o body \o F3

TwoBlockTexts ==
    { Block(t1, b1) \o gap \o Block(t2, b2) :
        t1 \in BlockTags, b1 \in BlockBodies, gap \in BlockGaps,
        t2 \in BlockTags, b2 \in BlockBodies }

FreeOrigin == [kind |-> "free", J |-> JLit("null"), pre |-> <<>>, fence |-> "none", post |-> <<>>]

NoClean  == [kind |-> "none", json_text |-> <<>>]

SanInit ==
    /\ \/ /\ origin = FreeOrigin
          /\ raw \in PieceTexts(MaxPieces) \cup FailureExamples \cup TwoBlockTexts
       \/ \E J \in FilesObjects, pre \in Prefixes, fence \in Fences, post \in Suffixes :
          /\ origin = [kind |-> "wrapped", J |-> J, pre |-> pre, fence |-> fence, post |-> post]
          /\ raw = Wrap(pre, fence, post, json_dumps(J, 0, 0))
    /\ spc = "start"
    /\ clean = NoClean
    /\ parsed = ParseFail
    /\ sret = NoCall

SanIdle ==
    /\ raw = <<>>
    /\ origin = FreeOrigin
    /\ spc = "idle"
    /\ clean = NoClean
    /\ parsed = ParseFail
    /\ sret = NoCall

\* Lines 181-185: the empty response, and sanitize_llm_output(raw).
SanSanitize ==
    /\ spc = "start"
    /\ IF raw = <<>>
       THEN /\ clean' = clean
            /\ sret' = CallFail("EmptyResponse")
            /\ spc' = "raised"
       ELSE /\ clean' = sanitize_llm_output(raw)
            /\ sret' = IF clean'.kind = "ok" THEN sret ELSE CallFail(clean'.kind)
            /\ spc' = IF clean'.kind = "ok" THEN "sanitized" ELSE "raised"
    /\ UNCHANGED <<raw, origin, parsed>>
    /\ UNCHANGED <<cvars, gvars, evars>>

\* Line 186: json.loads(clean)
SanLoads ==
    /\ spc = "sanitized"
    /\ parsed' = json_loads(clean.json_text)
    /\ sret' = IF parsed'.ok THEN sret ELSE CallFail("MalformedJson")
    /\ spc' = IF parsed'.ok THEN "loaded" ELSE "raised"
    /\ UNCHANGED <<raw, origin, clean>>
    /\ UNCHANGED <<cvars, gvars, evars>>

\* Lines 188-191: the files key.
SanReturn ==
    /\ spc = "loaded"
    /\ sret' = FilesOf(parsed.val)
    /\ spc' = IF sret'.kind = "ok" THEN "returned" ELSE "raised"
    /\ UNCHANGED <<raw, origin, clean, parsed>>
    /\ UNCHANGED <<cvars, gvars, evars>>

SanNext ==
    \/ SanSanitize
    \/ SanLoads
    \/ SanReturn

(***************************************************************************)
(* One extract_components_from_html(html_content) call.                    *)
(***************************************************************************)
MaxDocLen == 4

\* The documents of at most MaxDocLen elements.
Documents == UNION { [1..n -> ElementTags] : n \in 0..MaxDocLen }

ExtInit ==
    /\ html_content \in Documents
    /\ epc = "start"
    /\ comps = <<>>

ExtIdle ==
    /\ html_content = <<>>
    /\ epc = "idle"
    /\ comps = <<>>

\* Lines 6-99: the seven passes over the parsed document.
ExtExtract ==
    /\ epc = "start"
    /\ comps' = extract_components_from_html(html_content)
    /\ epc' = "done"
    /\ UNCHANGED html_content
    /\ UNCHANGED <<cvars, gvars, svars>>

ExtNext == ExtExtract

(***************************************************************************)
(* The specifications: one crawl; one scaffold generation; one parse of a  *)
(* model response; one classification of a page.                           *)
(***************************************************************************)
Init == CrawlInit /\ GenIdle /\ SanIdle /\ ExtIdle

Next == CrawlNext

Spec == Init /\ [][Next]_vars

InitGen == CrawlIdle /\ GenInit /\ SanIdle /\ ExtIdle

SpecGen == InitGen /\ [][GenNext]_vars

InitSan == CrawlIdle /\ GenIdle /\ SanInit /\ ExtIdle

SpecSan == InitSan /\ [][SanNext]_vars

InitExt == CrawlIdle /\ GenIdle /\ SanIdle /\ ExtInit

SpecExt == InitExt /\ [][ExtNext]_vars

(***************************************************************************)
(* Properties of crawl (specification Spec).                               *)
(***************************************************************************)
\* C1: with max_pages >= 0, in every reachable state of crawl, whatever the
\* pages link to and however their captures fail, visited holds at most
\* max_pages URLs, and so the mapping returned holds at most max_pages records.
C1_VisitedWithinMaxPages ==
    max_pages >= 0 =>
        /\ Cardinality(visited) <= max_pages
        /\ Cardinality(DOMAIN results) <= max_pages

\* A crawl that has used its whole budget, its last capture a failed one.
C1_Witness ==
    /\ cpc = "done"
    /\ max_pages >= 2
    /\ Cardinality(visited) = max_pages
    /\ Cardinality(DOMAIN results) = max_pages
    /\ last_nav = "stale"

C3_NoUrlEnqueuedTwice ==
    \A i, j \in 1..Len(enqueued) : enqueued[i] = enqueued[j] => i = j

\* urlparse(url).hostname, for a netloc without user information: the part
\* before the port.
Hostname(netloc) ==
    LET colons == { i \in 1..Len(netloc) : netloc[i] = ":" }
    IN  IF colons = {} THEN netloc
        ELSE SubSeq(netloc, 1, (CHOOSE i \in colons : \A k \in colons : i <= k) - 1)

\* The start hosts whose hostname, lower-cased, contains a proprietary marker.
MarkedStartHosts ==
    { h \in StartHosts :
        \E k \in CRAWLER_PROPRIETARY_MARKERS : Contains(Lower(Hostname(h)), k) }

StartHostHasMarker == start_url.netloc \in MarkedStartHosts

\* C4: when the host of start_url contains a proprietary marker, in any case of
\* its letters, crawl goes no further than the rejection: the browser is never
\* launched, no page is navigated to, the count of fetches is zero and no page
\* record is made.
C4_ProprietaryStartRejectedBeforeFetch ==
    StartHostHasMarker =>
        /\ cpc \in {"start", "rejected"}
        /\ ~browser
        /\ fetches = 0
        /\ page = BlankPage
        /\ DOMAIN results = {}

\* crawl has rejected a start URL whose host is a marker in upper-case letters.
C4_Witness ==
    /\ cpc = "rejected"
    /\ start_url.netloc = UpperHost
    /\ fetches = 0
    /\ ~browser

\* robots.txt is answered with status 200 and a body that holds "disallow: /".
RobotsDisallowed ==
    /\ ~robots.error
    /\ robots.status_code = 200
    /\ Contains(Lower(robots.text), DisallowNeedle)

\* C5 as stated: when the host of start_url is robots-disallowed, no page is
\* navigated to and no page record is made.
C5_RobotsDisallowedNotCrawled ==
    RobotsDisallowed => (fetches = 0 /\ DOMAIN results = {})

(***************************************************************************)
(* Properties of generate_scaffold (specification SpecGen).                *)
(***************************************************************************)
HasGenMarker(v) ==
    \E x \in GEN_PROPRIETARY_MARKERS : Contains(Lower(OrEmpty(v)), x)

SpecNamesProprietary ==
    \/ HasGenMarker(ux_spec.domain)
    \/ \E i \in 1..Len(ux_spec.pages) : HasGenMarker(ux_spec.pages[i].title)

\* C6: when the domain or a page title of the UX spec contains a proprietary
\* marker, in any case of its letters, generate_scaffold goes no further than
\* the rejection: no prompt is built, the model is not called and no zip is
\* written; so too when the domain passes the check crawl makes of its URL.
C6_ProprietarySpecAbortsBeforeModel ==
    SpecNamesProprietary =>
        /\ gpc \in {"start", "rejected"}
        /\ ~prompt.built
        /\ model_calls = 0
        /\ ~out_zip.written

\* A spec rejected for a page title, its domain one that crawl accepts.
C6_Witness ==
    /\ gpc = "rejected"
    /\ ux_spec.domain = OwnHost
    /\ ~likely_proprietary_domain(Url(ux_spec.domain, "/"))
    /\ ~HasGenMarker(ux_spec.domain)
    /\ \E i \in 1..Len(ux_spec.pages) : HasGenMarker(ux_spec.pages[i].title)
    /\ model_calls = 0

ValidServer(ff) ==
    /\ ServerKey \in DOMAIN ff
    /\ TextLen(Strip(ff[ServerKey])) >= MinServerLen
    /\ HasNewline(ff[ServerKey])

\* C7: whatever the model-output map, the file set that is packaged holds every
\* path of needed_frontend and a server.py whose stripped length is at least 50
\* and which holds a line break.
C7_AssemblerTotality ==
    gpc = "packaged" =>
        /\ needed_frontend \subseteq DOMAIN final_files
        /\ ValidServer(final_files)
        /\ out_zip = [written |-> TRUE, files |-> final_files]

\* The model gave a one-line server.py of 60 characters and an empty
\* frontend/index.html: the first is replaced by the default, the second kept.
C7_Witness ==
    /\ gpc = "packaged"
    /\ ServerKey \in DOMAIN files
    /\ files[ServerKey] = JStr(<<Chunk60>>)
    /\ <<"frontend/index.html">> \in DOMAIN files
    /\ files[<<"frontend/index.html">>] = JStr(<<>>)
    /\ final_files[ServerKey] = DEFAULT_FILES[ServerKey]
    /\ final_files[<<"frontend/index.html">>] = <<>>

\* The generation has failed: the model is not configured, or the call raised.
GenerationFailed == gpc \in {"called", "packaged"} /\ call_result.kind # "ok"

DefaultsPackaged ==
    gpc = "packaged" /\ out_zip = [written |-> TRUE, files |-> DEFAULT_FILES]

\* C8: when the UX spec passes the policy check, a generation failure of any
\* kind leaves the model-output map empty and the run able to go on to the
\* merge and make_zip; the zip it then writes holds exactly DEFAULT_FILES; and
\* the only run that is aborted is the one the policy check rejects.
C8_GracefulDegradation ==
    /\ GenerationFailed => files = EmptyMap
    /\ (GenerationFailed /\ gpc = "called") => ENABLED GenPackage
    /\ (GenerationFailed /\ gpc = "packaged") => DefaultsPackaged
    /\ gpc = "rejected" => SpecNamesProprietary

\* The model's answer parsed, but its "files" is not a mapping; the defaults
\* were packaged.
C8_Witness ==
    /\ call_result.kind = "MissingFilesKey"
    /\ model_calls = 1
    /\ DefaultsPackaged

(***************************************************************************)
(* Properties of sanitize_llm_output and json.loads (specification         *)
(* SpecSan).                                                               *)
(***************************************************************************)
\* The number of atoms a among the first n of t.
Count(t, a, n) == Cardinality({ k \in 1..n : t[k] = a })

NoFenceIn(t) == \A i \in 1..Len(t) : ~FenceAt(t, i)

NoOpenBrace(t) == \A i \in 1..Len(t) : t[i] # "{"

\* Every "}" of t closes a "{" of t, and every "{" of t is closed.
BracesBalanced(t) ==
    /\ \A n \in 1..Len(t) : Count(t, "}", n) <= Count(t, "{", n)
    /\ Count(t, "}", Len(t)) = Count(t, "{", Len(t))

\* The strings of a files object: its keys and its file contents.
StringsOf(J) ==
    {<<"files">>}
        \cup DOMAIN J.m[<<"files">>].m
        \cup { J.m[<<"files">>].m[k].s : k \in DOMAIN J.m[<<"files">>].m }

\* A wrapping the sanitizer sees through: the strings of J hold no triple
\* backquote and their braces are balanced; the text before J holds no triple
\* backquote; and when J is not fenced, the text before it holds no "{" and the
\* text after it no triple backquote.
SafeWrapping(o) ==
    /\ \A str \in StringsOf(o.J) : NoFenceIn(str) /\ BracesBalanced(str)
    /\ NoFenceIn(o.pre)
    /\ o.fence = "none" => (NoOpenBrace(o.pre) /\ NoFenceIn(o.post))

RoundTrips ==
    \/ spc \in {"start", "sanitized"}
    \/ /\ spc \in {"loaded", "returned"}
       /\ clean.kind = "ok"
       /\ parsed.ok
       /\ parsed.val = origin.J

\* C9 as stated: for every files object J, whatever its file contents, and
\* every wrapping of its text in prose and a fence, sanitize_llm_output and then
\* json.loads give J.
C9_RoundTripAnyWrapping == origin.kind = "wrapped" => RoundTrips

\* C9, amended: sanitize_llm_output and then json.loads give J for every files
\* object J whose strings hold no triple backquote and only balanced braces,
\* wrapped so that the text before J holds no triple backquote and, when J is
\* not fenced, no "{" before J and no triple backquote after it.
C9_RoundTripSafeWrapping ==
    (origin.kind = "wrapped" /\ SafeWrapping(origin)) => RoundTrips

\* A files object with "{}" as a file's content, in a json fence after "Sure! "
\* and before more text, has come back from json.loads.
C9_Witness ==
    /\ origin.kind = "wrapped"
    /\ SafeWrapping(origin)
    /\ origin.fence = "json"
    /\ origin.pre = <<"Sure!", " ">>
    /\ origin.post # <<>>
    /\ \E k \in DOMAIN origin.J.m[<<"files">>].m :
           origin.J.m[<<"files">>].m[k].s = <<"{", "}">>
    /\ spc = "loaded"
    /\ parsed.val = origin.J

\* The positions of t, from its first "{" at position first on, where as many
\* "}" as "{" have been read.
DepthZeroAt(t, first) ==
    { j \in first..Len(t) :
        Count(t, "{", j) - Count(t, "{", first - 1)
            = Count(t, "}", j) - Count(t, "}", first - 1) }

Least(S) == CHOOSE i \in S : \A k \in S : i <= k

\* The outcome C10 gives for the text selected for parsing.
ExpectedOutcome(t) ==
    IF NoOpenBrace(t) THEN [kind |-> "NoJsonFound", json_text |-> <<>>]
    ELSE IF DepthZeroAt(t, Least({ i \in 1..Len(t) : t[i] = "{" })) = {}
         THEN [kind |-> "UnbalancedOutput", json_text |-> <<>>]
    ELSE [kind |-> "ok",
          json_text |-> SubSeq(t, Least({ i \in 1..Len(t) : t[i] = "{" }),
                               Least(DepthZeroAt(t, Least({ i \in 1..Len(t) : t[i] = "{" }))))]

UnbalancedExample == <<"{", " ", "\"", "a", "\"", ":", " ", "1", " ">>

\* C10: sanitize_llm_output fails with NoJsonFound exactly when the text
\* selected for parsing holds no "{", with UnbalancedOutput exactly when it
\* holds one and the depth counted from the first "{" never comes back to zero,
\* and otherwise gives the text from the first "{" to the first position where
\* the depth is zero; a text with no "{" at all fails with NoJsonFound, and
\* { "a": 1 with UnbalancedOutput.
C10_SanitizerOutcomes ==
    (spc \notin {"idle", "start"} /\ raw # <<>>) =>
        /\ clean = ExpectedOutcome(TextToParse(raw))
        /\ NoOpenBrace(raw) => clean.kind = "NoJsonFound"
        /\ raw = UnbalancedExample => clean.kind = "UnbalancedOutput"

\* A fenced text with two "{": the object given back starts at the first and
\* ends before the second.
C10_Witness ==
    /\ origin.kind = "free"
    /\ FenceSearch(raw).found
    /\ clean.kind = "ok"
    /\ Count(TextToParse(raw), "{", Len(TextToParse(raw))) = 2
    /\ clean.json_text = <<"{", "}">>

(***************************************************************************)
(* Properties of extract_components_from_html (specification SpecExt).     *)
(***************************************************************************)
\* The place of a type of entry in the scan order.
ScanRank(type) ==
    CASE type = "clickable" -> 1
      [] type = "form"      -> 2
      [] type = "nav"       -> 3
      [] type = "list"      -> 4
      [] type = "table"     -> 5
      [] type = "images"    -> 6
      [] type = "headings"  -> 7

EntriesOfType(type) == { i \in 1..Len(comps) : comps[i].type = type }

\* C11: the components of every document are grouped by category in the scan
\* order clickables, forms, navs, lists, tables, images, headings, whatever the
\* order of the elements in the document; within a category the entries follow
\* the document order; and there is at most one images entry and at most one
\* headings entry, each there exactly when the document holds an img element,
\* or an h1..h4 element.
C11_ComponentsGroupedInScanOrder ==
    epc = "done" =>
        /\ \A i, j \in 1..Len(comps) :
               i < j => /\ ScanRank(comps[i].type) <= ScanRank(comps[j].type)
                        /\ (comps[i].type = comps[j].type => comps[i].pos < comps[j].pos)
        /\ Cardinality(EntriesOfType("images")) <= 1
        /\ Cardinality(EntriesOfType("headings")) <= 1
        /\ EntriesOfType("images") # {}
               <=> \E k \in 1..Len(html_content) : html_content[k] = "img"
        /\ EntriesOfType("headings") # {}
               <=> \E k \in 1..Len(html_content) : html_content[k] \in {"h1", "h2", "h3", "h4"}

\* A document with a heading before an img before a link before a second img.
C11_Witness ==
    /\ epc = "done"
    /\ html_content = <<"h2", "img", "a", "img">>
    /\ Len(comps) = 3
    /\ comps[1].type = "clickable"
    /\ comps[2].type = "images"
    /\ comps[2].count = 2
    /\ comps[3].type = "headings"

(***************************************************************************)
(* Further properties of crawl (specification Spec).                       *)
(***************************************************************************)
\* C12 as stated: when page.goto or the idle wait fails for the URL u taken off
\* the queue, the crawl goes on (u is marked visited, one record is stored for
\* u, the loop is not left), and the record of u has no screenshot, no markup
\* and no links: nothing of the page the shared session showed before.
C12_FailedCaptureLeavesRecordUnset ==
    [][(fetches' = fetches + 1 /\ last_nav' \in {"stale", "idle"}) =>
           /\ cpc' = "loop"
           /\ Head(queue).url \in visited'
           /\ Head(queue).url \in DOMAIN results'
           /\ DOMAIN results' = DOMAIN results \cup {Head(queue).url}
           /\ ~results'[Head(queue).url].screenshot
           /\ results'[Head(queue).url].html = AboutBlank
           /\ results'[Head(queue).url].links = {}]_vars

\* The same-domain link graph as far as the run has seen it: the links of the
\* pages whose capture loaded the page itself.
Loaded(u) == u \in DOMAIN results /\ results[u].html = u

AllLoaded == \A u \in DOMAIN results : Loaded(u)

Edges(u) == IF Loaded(u) THEN results[u].links ELSE {}

RECURSIVE ReachWithin(_)
ReachWithin(k) ==
    IF k = 0 THEN {start_url}
    ELSE ReachWithin(k - 1) \cup UNION { Edges(u) : u \in ReachWithin(k - 1) }

\* The length of the shortest path from start_url to a reachable u.
Distance(u) == CHOOSE k \in 0..Cardinality(DeepPaths) :
                   /\ u \in ReachWithin(k)
                   /\ \A j \in 0..(k - 1) : u \notin ReachWithin(j)

\* C13 as stated: in a run whose captures all loaded their pages, every task
\* (url, depth) that was dequeued and visited has depth equal to the length of
\* the shortest path from start_url to url in the same-domain link graph.
C13_DepthIsBfsDistance ==
    AllLoaded => \A t \in processed : t.depth = Distance(t.url)

\* C14 as stated: the order in which a page's links are enqueued is fixed by
\* its anchors' document order, so that the queue after a visit, and with it
\* the sequence of URLs visited and the set of pages captured under a tight
\* page budget, is the same in every run over the same pages.
C14_EnqueueOrderIsDocumentOrder ==
    [][(fetches' = fetches + 1) =>
           queue' = EnqueueLinks(DocumentOrder(results'[Head(queue).url].links),
                                 Tail(queue), visited', Head(queue).depth,
                                 max_pages)]_vars

(***************************************************************************)
(* Termination of crawl (specification Spec).                              *)
(***************************************************************************)
\* What is left of the page budget, weighted above the queue length: a visit
\* uses up one page and adds fewer than max_pages + 2 tasks, a skip removes one.
Measure == (max_pages - Cardinality(visited)) * (max_pages + 2) + Len(queue)

CrawlEnded == cpc \in {"rejected", "failed", "done"}

\* C15: whatever the pages link to, crawl terminates: until it has returned or
\* raised it can always take a step, every iteration of its loop lowers
\* Measure, and Measure never falls below zero, whatever the number of links
\* found; and when crawl returns, the queue is empty or max_pages URLs have
\* been visited.
C15_CrawlTerminates ==
    /\ [](CrawlEnded \/ ENABLED Next)
    /\ [][(cpc = "loop" /\ cpc' = "loop") => Measure' < Measure]_vars
    /\ [](cpc = "loop" => Measure >= 0)
    /\ [](cpc = "done" => (queue = <<>> \/ Cardinality(visited) >= max_pages))

\* The budget ends a crawl of pages that link back to the start page while a
\* page they link to has not been visited.
C15_Witness ==
    /\ cpc = "done"
    /\ max_pages >= 2
    /\ Cardinality(visited) = max_pages
    /\ \E u \in visited : u # start_url /\ start_url \in results[u].links
    /\ \E u \in visited : \E l \in results[u].links : l \notin visited

(***************************************************************************)
(* The fence taken by sanitize_llm_output (specification SpecSan).         *)
(***************************************************************************)
\* The fenced blocks of a text, paired from the left: a block opens at the
\* first fence marker at or after position i and closes at the next marker.
RECURSIVE BlockCount(_, _)
BlockCount(t, i) ==
    LET o == FirstFenceFrom(t, i)
    IN  IF o = 0 \/ FirstFenceFrom(t, o + 3) = 0 THEN 0
        ELSE 1 + BlockCount(t, FirstFenceFrom(t, o + 3) + 3)

FirstOpening(t) == FirstFenceFrom(t, 1)

FirstTagged(t) ==
    FirstOpening(t) + 3 <= Len(t) /\ t[FirstOpening(t) + 3] \in JsonTags

\* The text between the markers of the first block, after its json tag if it
\* has one.
FirstBlockInner(t) ==
    SubSeq(t, FirstOpening(t) + (IF FirstTagged(t) THEN 4 ELSE 3),
              FirstFenceFrom(t, FirstOpening(t) + 3) - 1)

FirstInnerShort(t) == TextLen(Strip(FirstBlockInner(t))) < ShortTextLen

\* C16 as stated: when the model text holds more than one fenced block, the
\* result of sanitize_llm_output is that of the inner text of the block that
\* opens first, whatever the later blocks hold.
C16_FirstFenceWins ==
    (spc # "start" /\ BlockCount(raw, 1) >= 2) =>
        clean = sanitize_llm_output(FirstBlockInner(raw))

\* C16, amended: when the model text holds more than one fenced block, the
\* result is that of the inner text of the block that opens first, tagged or
\* not, unless that inner text, stripped, is shorter than 5 characters; then the
\* result is that of the whole text with its fence markers removed.
C16_FirstFenceWinsUnlessShort ==
    (spc # "start" /\ BlockCount(raw, 1) >= 2) =>
        clean = IF FirstInnerShort(raw)
                THEN sanitize_llm_output(RemoveFences(raw, 1))
                ELSE sanitize_llm_output(FirstBlockInner(raw))

\* An untagged first block of five characters of prose wins over a later
\* json-tagged block that holds an object: no JSON is found.
C16_Witness ==
    /\ spc = "raised"
    /\ BlockCount(raw, 1) = 2
    /\ ~FirstTagged(raw)
    /\ Strip(FirstBlockInner(raw)) = <<"notes">>
    /\ clean.kind = "NoJsonFound"
    /\ \E i \in 2..Len(raw) :
         /\ TaggedFenceAt(raw, i)
         /\ sanitize_llm_output(SubSeq(raw, i, Len(raw))).kind = "ok"

====
